---- MODULE Spec2Model ----
(***************************************************************************)
(* Customer Records Manager (src/app.py): a Streamlit script over a shared *)
(* SQLite file.  Two browser sessions run the script against the same      *)
(* three tables.  Every script run is triggered by one widget event; a run *)
(* reads the tables top to bottom, and a handler that writes is followed   *)
(* by st.rerun().  Each SQL statement is atomic (own implicit              *)
(* transaction); statements of one run may interleave with statements of   *)
(* the other session where the code reads first and writes later.          *)
(* A widget without key is identified by its parameters: when they change  *)
(* between two runs it is a new widget that returns its default.           *)
(*                                                                         *)
(* Abstractions: amounts are integers (units of the 0.01 step of the       *)
(* number inputs); a 'YYYY-MM-DD HH:MM:SS' text is the pair                *)
(* <<year-month part, rest>> compared lexicographically as SQLite compares *)
(* TEXT; the PBKDF2 digest is a symbolic term over the password.           *)
(***************************************************************************)
EXTENDS Integers, Sequences, FiniteSets, TLC

\* ------------------------------------------------------------------ bounds
\* Rows ever inserted into a table while one browser session uses the store,
\* and while two sessions share it.
MaxUsers == 1
MaxCustomers == 2
MaxTransactions == 2
MaxSharedUsers == 2
MaxSharedCustomers == 1
MaxSharedTransactions == 1
MaxClock == 2          \* last value of the server clock (seconds)
MaxOpenDialogs == 1    \* forms and delete confirmations a user keeps open

\* --------------------------------------------------------------- constants
None == 0              \* Python None / falsy id; AUTOINCREMENT ids start at 1
AllMonths == 0 - 1     \* the "All Months" option of the month filter
MonthLen == 2          \* seconds per calendar month of the model clock
MinPasswordLen == 6    \* len(password) < 6 is refused by the register form

Sessions == {"s1", "s2"}
LedgerSessions == {"s1"}

AdminEmail == "admin@example.com"
AdminName == "Admin User"
AdminPassword == "admin123"

\* What the users type.  Small finite sets that contain a duplicate email
\* with another name and password, the bootstrap email, a password that is
\* too short and an empty field.
RegisterInputs ==
    { <<"Ann", "ann@example.com", "secret1">>,
      <<"Eve", AdminEmail, "secret1">>,
      <<"Ann", "ann@example.com", "abc">>,
      <<"", "ann@example.com", "secret1">> }

LoginInputs ==
    { <<AdminEmail, AdminPassword>>,
      <<"ann@example.com", "secret1">>,
      <<"ann@example.com", AdminPassword>>,
      <<"ann@example.com", "">> }

\* Customer names in ascending (ORDER BY name) order, and untrimmed inputs.
CustomerNames == <<"Acme", "Zed">>
CustomerNameInputs == {"Acme", " Zed ", "   "}

\* Values of the transaction form: type, total, received, note.  The number
\* inputs have min_value = 0.0, so no negative value can be submitted.
FormInputs ==
    { <<"Received", 0, 0, "">>,
      <<"Received", 2, 1, "">>,
      <<"Given", 1, 2, "cash">> }

\* ---------------------------------------------------------------- helpers
Range(f) == { f[i] : i \in DOMAIN f }

\* str.strip() on the customer-name inputs
strip(name) ==
    CASE name = " Zed " -> "Zed"
      [] name = "   " -> ""
      [] OTHER -> name

NameRank(name) == CHOOSE i \in DOMAIN CustomerNames : CustomerNames[i] = name

\* hashlib.pbkdf2_hmac('sha256', password, salt, 100000).hex(): deterministic
\* and collision free on the passwords of the model.
hash_password(password) ==
    <<"pbkdf2_hmac", "sha256", "money_records_salt_2024", 100000, password>>

\* datetime.now().strftime('%Y-%m-%d %H:%M:%S'): the text of clock value t
FormatDateTime(t) == <<(t \div MonthLen) + 1, t % MonthLen>>
\* datetime.now().strftime('%Y-%m')
FormatMonth(t) == (t \div MonthLen) + 1
\* SQLite strftime('%Y-%m', date_time) on a stored text
SqlStrftimeMonth(date_time) == date_time[1]
\* SQLite comparison of two TEXT values of equal layout
TextLess(a, b) == \/ a[1] < b[1]
                  \/ a[1] = b[1] /\ a[2] < b[2]


\* ------------------------------------------------------------------ state
VARIABLES
    users,            \* table users: rows [id, name, email, password]
    customers,        \* table customers: rows [id, user_id, name]
    transactions,     \* table transactions: rows [id, customer_id, date_time,
                      \*   type, total_amount, amount_received, amount_left, note]
    sqlite_sequence,  \* AUTOINCREMENT counters, one per table
    clock,            \* datetime.now() of the server, in seconds
    sess,             \* per browser session: st.session_state, widget state
                      \*   and the position of its script run
    registered,       \* history: what each successful register_user returned
    created,          \* history: the clock value at which each transaction
                      \*   id was inserted
    last              \* history: the statement or refusal of the last step

vars == <<users, customers, transactions, sqlite_sequence, clock, sess,
          registered, created, last>>

\* All sequences that list the rows S once each with no row before one that
\* sorts before it (before: the set of pairs <<a, b>> with a sorting strictly
\* before b): the results an ORDER BY may produce, ties in any order.
OrderedBy(S, before) ==
    { q \in [1..Cardinality(S) -> S] :
        /\ \A i, j \in DOMAIN q : i # j => q[i] # q[j]
        /\ \A i, j \in DOMAIN q : i < j => <<q[j], q[i]>> \notin before }

\* ------------------------------------------------------ database functions
\* Variant of login_user that hashes with another salt than register_user
login_userOtherSalt(email, password) ==
    LET hashed == <<"pbkdf2_hmac", "sha256", "salt", 100000, password>>
        rows == { u \in users : u.email = email /\ u.password = hashed }
    IN  IF rows # {}
        THEN LET result == CHOOSE u \in rows : TRUE
             IN  <<TRUE, result.id, result.name>>
        ELSE <<FALSE, None, "">>

\* SELECT id, name FROM users WHERE email = ? AND password = ?; fetchone()
login_user(email, password) ==
    LET hashed == hash_password(password)
        rows == { u \in users : u.email = email /\ u.password = hashed }
    IN  IF rows # {}
        THEN LET result == CHOOSE u \in rows : TRUE
             IN  <<TRUE, result.id, result.name>>
        ELSE <<FALSE, None, "">>

\* Variant of the SELECT of get_customers without WHERE user_id = ?
SelectCustomersOfAll(table, user_id) ==
    LET rows == { <<c.id, c.name>> : c \in table }
        byName == { p \in rows \X rows : NameRank(p[1][2]) < NameRank(p[2][2]) }
    IN  OrderedBy(rows, byName)

\* SELECT id, name FROM customers WHERE user_id = ? ORDER BY name, on the
\* table as it is (table) when the statement runs
SelectCustomers(table, user_id) ==
    LET rows == { <<c.id, c.name>> : c \in { x \in table : x.user_id = user_id } }
        byName == { p \in rows \X rows : NameRank(p[1][2]) < NameRank(p[2][2]) }
    IN  OrderedBy(rows, byName)

get_customers(user_id) == SelectCustomers(customers, user_id)

\* customer_dict = {c[1]: c[0] for c in customers}: a later row of the same
\* name replaces the earlier one
customer_dict(custs) ==
    [ n \in { custs[i][2] : i \in DOMAIN custs } |->
        LET k == CHOOSE i \in DOMAIN custs :
                    /\ custs[i][2] = n
                    /\ \A j \in DOMAIN custs : custs[j][2] = n => j <= i
        IN  custs[k][1] ]

\* list(customer_dict.keys()): the distinct names in order of first insertion
RECURSIVE customer_names(_)
customer_names(custs) ==
    IF custs = <<>> THEN <<>>
    ELSE LET name == Head(custs)[2]
             others(c) == c[2] # name
         IN  <<name>> \o customer_names(SelectSeq(Tail(custs), others))

\* The 7-column row of the two SELECTs of get_transactions
Row(t) == <<t.id, t.date_time, t.type, t.total_amount, t.amount_received,
            t.amount_left, t.note>>

\* Variant of get_transactions with ORDER BY date_time ASC
get_transactionsAscending(customer_id, month_filter) ==
    LET rows ==
          IF month_filter # None /\ month_filter # AllMonths
          THEN { Row(t) : t \in { x \in transactions :
                     /\ x.customer_id = customer_id
                     /\ SqlStrftimeMonth(x.date_time) = month_filter } }
          ELSE { Row(t) : t \in { x \in transactions :
                     x.customer_id = customer_id } }
        oldestFirst == { p \in rows \X rows : TextLess(p[1][2], p[2][2]) }
    IN  OrderedBy(rows, oldestFirst)

\* SELECT ... FROM transactions WHERE customer_id = ? [AND strftime('%Y-%m',
\* date_time) = ?] ORDER BY date_time DESC
get_transactions(customer_id, month_filter) ==
    LET rows ==
          IF month_filter # None /\ month_filter # AllMonths
          THEN { Row(t) : t \in { x \in transactions :
                     /\ x.customer_id = customer_id
                     /\ SqlStrftimeMonth(x.date_time) = month_filter } }
          ELSE { Row(t) : t \in { x \in transactions :
                     x.customer_id = customer_id } }
        newestFirst == { p \in rows \X rows : TextLess(p[2][2], p[1][2]) }
    IN  OrderedBy(rows, newestFirst)

\* SELECT DISTINCT strftime('%Y-%m', date_time) as month ... ORDER BY month
\* DESC, on the table as it is (table) when the statement runs
SelectMonths(table, customer_id) ==
    LET months == { SqlStrftimeMonth(t.date_time) :
                      t \in { x \in table : x.customer_id = customer_id } }
        desc == { p \in months \X months : p[2] < p[1] }
    IN  CHOOSE q \in OrderedBy(months, desc) : TRUE

get_available_months(customer_id) == SelectMonths(transactions, customer_id)

\* calculate_summary(transactions): t[2] is the type, t[3] the total amount
\* (columns 3 and 4 of the 1-based rows here)
RECURSIVE SumTotals(_, _)
SumTotals(txs, type) ==
    IF txs = <<>> THEN 0
    ELSE (IF Head(txs)[3] = type THEN Head(txs)[4] ELSE 0)
         + SumTotals(Tail(txs), type)

\* Variant of calculate_summary that sums t[4], the amount received
RECURSIVE SumReceived(_, _)
SumReceived(txs, type) ==
    IF txs = <<>> THEN 0
    ELSE (IF Head(txs)[3] = type THEN Head(txs)[5] ELSE 0)
         + SumReceived(Tail(txs), type)

calculate_summaryReceivedColumn(txs) ==
    LET total_received == SumReceived(txs, "Received")
        total_given == SumReceived(txs, "Given")
        balance == total_received - total_given
    IN  <<total_received, total_given, balance>>

calculate_summary(txs) ==
    LET total_received == SumTotals(txs, "Received")
        total_given == SumTotals(txs, "Given")
        balance == total_received - total_given
    IN  <<total_received, total_given, balance>>

\* ------------------------------------------------------- session state
\* State of a selectbox that was not rendered in the last completed run
NoCustomerSelect == [options |-> <<>>, value |-> ""]
NoMonthSelect == [options |-> <<>>, default |-> None, value |-> None]
\* No statement of a running script is waiting to execute
NoWrite == [op |-> "none"]
\* The add/edit form was not rendered in the last completed run
NoForm == <<>>
\* Lines 420-423: the defaults of the form when a transaction is added
AddDefaults == <<"Received", 0, 0, "">>

\* st.session_state of a new browser session and after session_state.clear():
\* no key is present; the fields hold what init_session_state will put there.
FreshSession ==
    [ pc |-> "start",
      db_initialized |-> FALSE,
      logged_in |-> FALSE,
      user_id |-> None,
      user_name |-> "",
      selected_customer_id |-> None,
      show_add_form |-> FALSE,
      edit_transaction_id |-> None,
      show_add_customer |-> FALSE,
      confirm_delete |-> {},
      customer_select |-> NoCustomerSelect,
      month_select |-> NoMonthSelect,
      form_defaults |-> NoForm,
      pending |-> NoWrite ]

\* The widget keeps the value the user chose; no new choice in this run
Keep == "<keep>"
KeepMonth == 0 - 2

\* The history variable names the statement or refusal of the step just
\* taken when it is one of those below, and "other" for any other step.
Last(op, result) == [op |-> op, result |-> result]
Other == Last("other", "")

\* Forms and confirmations open in a session
OpenDialogs(r) ==
    (IF r.show_add_customer THEN 1 ELSE 0)
    + (IF r.show_add_form \/ r.edit_transaction_id # None THEN 1 ELSE 0)
    + Cardinality(r.confirm_delete)

\* The bounds of the exploration: one session, or two sharing the store
UserLimit ==
    IF Cardinality(DOMAIN sess) = 1 THEN MaxUsers ELSE MaxSharedUsers
CustomerLimit ==
    IF Cardinality(DOMAIN sess) = 1 THEN MaxCustomers ELSE MaxSharedCustomers
TransactionLimit ==
    IF Cardinality(DOMAIN sess) = 1 THEN MaxTransactions
    ELSE MaxSharedTransactions

\* Lines 291-310: read the customers, render the selectbox, set
\* selected_customer_id.  A selectbox without key is identified by its
\* options: when they change it is a new widget showing its first option.
AfterCustomerSelect(r, custs, pick) ==
    LET dict == customer_dict(custs)
        names == customer_names(custs)
        options == <<"">> \o names
        same == r.customer_select.options = options
        selected_name ==
            IF ~same THEN ""
            ELSE IF pick # Keep THEN pick
            ELSE r.customer_select.value
    IN  IF names # <<>>
        THEN [r EXCEPT
                !.customer_select = [options |-> options, value |-> selected_name],
                !.selected_customer_id =
                    IF selected_name # "" THEN dict[selected_name] ELSE None]
        ELSE [r EXCEPT !.customer_select = NoCustomerSelect,
                       !.selected_customer_id = None]

\* Lines 341-353: the month filter of the selected customer.  Its identity is
\* its options and its default index.
AfterMonthFilter(r, available_months, pick) ==
    LET current_month == FormatMonth(clock)
        month_options == <<AllMonths>> \o available_months
        default == IF current_month \in Range(month_options)
                   THEN current_month ELSE AllMonths
        same == /\ r.month_select.options = month_options
                /\ r.month_select.default = default
        selected_month ==
            IF ~same THEN default
            ELSE IF pick # KeepMonth THEN pick
            ELSE r.month_select.value
    IN  IF r.selected_customer_id # None /\ available_months # <<>>
        THEN [r EXCEPT !.month_select =
                 [options |-> month_options, default |-> default,
                  value |-> selected_month]]
        ELSE [r EXCEPT !.month_select = NoMonthSelect]

\* selected_month of line 351/353
SelectedMonth(r) == r.month_select.value

\* Line 414: [t for t in transactions if t[0] == edit_transaction_id][0]
\* raises IndexError when the list comprehension is empty
EditDefaultsRaise(r, txs) ==
    /\ r.edit_transaction_id # None
    /\ ~\E i \in DOMAIN txs : txs[i][1] = r.edit_transaction_id

\* Line 409: the add/edit form is rendered
FormShown(r) == r.show_add_form \/ r.edit_transaction_id # None

\* The rows the two SELECTs of get_transactions find in the table as it is
\* (table) when the statement runs, in no order
SelectTransactions(table, customer_id, month_filter) ==
    IF month_filter # None /\ month_filter # AllMonths
    THEN { Row(t) : t \in { x \in table :
               /\ x.customer_id = customer_id
               /\ SqlStrftimeMonth(x.date_time) = month_filter } }
    ELSE { Row(t) : t \in { x \in table : x.customer_id = customer_id } }

\* Lines 409-423: default_type, default_total_amount,
\* default_amount_received and default_note of the form a run renders;
\* NoForm when the run renders no form (no customer selected, no form
\* requested, or line 414 raised).
FormDefaults(r, table) ==
    IF r.selected_customer_id = None \/ ~FormShown(r) THEN NoForm
    ELSE IF r.edit_transaction_id = None THEN AddDefaults
    ELSE LET found == { t \in SelectTransactions(table, r.selected_customer_id,
                                                SelectedMonth(r)) :
                          t[1] = r.edit_transaction_id }
         IN  IF found = {} THEN NoForm
             ELSE LET trans == CHOOSE t \in found : TRUE
                  IN  <<trans[3], trans[4], trans[5], trans[7]>>

\* The end of a completed run: the form widgets are the ones rendered with
\* the defaults of this run.
Render(r, table) == [r EXCEPT !.form_defaults = FormDefaults(r, table)]

\* Lines 426-444: the selectbox, the two number inputs and the text area of
\* the form have no key, so each is identified by its parameters, its
\* default (index= / value=) among them.  On submit a widget whose default
\* is the one it was rendered with (shown) returns what the user typed;
\* one whose default has changed since is a new widget and returns its
\* default.
FormValues(shown, defaults, form) ==
    [ i \in 1..4 |-> IF shown[i] = defaults[i] THEN form[i] ELSE defaults[i] ]

\* Variant of line 438 that clamps the remainder at zero
AmountLeftClamped(total_amount, amount_received) ==
    IF total_amount - amount_received < 0 THEN 0
    ELSE total_amount - amount_received

\* Line 438
AmountLeft(total_amount, amount_received) == total_amount - amount_received

\* Variant of line 454 that tests total_amount >= 0
AmountValidNonNegative(total_amount) == total_amount >= 0

\* Line 454
AmountValid(total_amount) == total_amount > 0

\* Variant of line 30 without the UNIQUE constraint
NoUniqueConstraint(email) == FALSE

\* Line 30: email TEXT UNIQUE NOT NULL makes the INSERT raise IntegrityError
UniqueViolation(email) == \E u \in users : u.email = email

\* --------------------------------------------------------------- statements
\* INSERT INTO users (name, email, password) VALUES (?, ?, ?)
InsertUser(name, email, password) ==
    /\ users' = users \cup
          {[id |-> sqlite_sequence.users + 1, name |-> name, email |-> email,
            password |-> hash_password(password)]}
    /\ sqlite_sequence' = [sqlite_sequence EXCEPT !.users = @ + 1]

\* INSERT INTO customers (user_id, name) VALUES (?, ?)
add_customer(user_id, name) ==
    /\ customers' = customers \cup
          {[id |-> sqlite_sequence.customers + 1, user_id |-> user_id,
            name |-> name]}
    /\ sqlite_sequence' = [sqlite_sequence EXCEPT !.customers = @ + 1]

\* Variant of add_transaction whose parameter tuple has customer_id and
\* total_amount in each other's place
add_transactionSwapped(customer_id, trans_type, total_amount, amount_received, amount_left, note) ==
    /\ transactions' = transactions \cup
          {[id |-> sqlite_sequence.transactions + 1,
            customer_id |-> total_amount,
            date_time |-> FormatDateTime(clock),
            type |-> trans_type,
            total_amount |-> customer_id,
            amount_received |-> amount_received,
            amount_left |-> amount_left,
            note |-> note]}
    /\ sqlite_sequence' = [sqlite_sequence EXCEPT !.transactions = @ + 1]

\* INSERT INTO transactions (...) VALUES (?, ?, ?, ?, ?, ?, ?) with
\* date_time = datetime.now().strftime('%Y-%m-%d %H:%M:%S')
add_transaction(customer_id, trans_type, total_amount, amount_received, amount_left, note) ==
    /\ transactions' = transactions \cup
          {[id |-> sqlite_sequence.transactions + 1,
            customer_id |-> customer_id,
            date_time |-> FormatDateTime(clock),
            type |-> trans_type,
            total_amount |-> total_amount,
            amount_received |-> amount_received,
            amount_left |-> amount_left,
            note |-> note]}
    /\ sqlite_sequence' = [sqlite_sequence EXCEPT !.transactions = @ + 1]

\* Variant of update_transaction that also sets date_time to now
update_transactionTouchDate(trans_id, trans_type, total_amount, amount_received, amount_left, note) ==
    transactions' =
        { IF t.id = trans_id
          THEN [t EXCEPT !.date_time = FormatDateTime(clock),
                         !.type = trans_type,
                         !.total_amount = total_amount,
                         !.amount_received = amount_received,
                         !.amount_left = amount_left,
                         !.note = note]
          ELSE t : t \in transactions }

\* UPDATE transactions SET type = ?, total_amount = ?, amount_received = ?,
\* amount_left = ?, note = ? WHERE id = ?
update_transaction(trans_id, trans_type, total_amount, amount_received, amount_left, note) ==
    transactions' =
        { IF t.id = trans_id
          THEN [t EXCEPT !.type = trans_type,
                         !.total_amount = total_amount,
                         !.amount_received = amount_received,
                         !.amount_left = amount_left,
                         !.note = note]
          ELSE t : t \in transactions }

\* Variant of delete_transaction without conn.commit(): closing the
\* connection rolls the DELETE back
delete_transactionNoCommit(trans_id) ==
    transactions' = transactions

\* DELETE FROM transactions WHERE id = ?
delete_transaction(trans_id) ==
    transactions' = { t \in transactions : t.id # trans_id }

\* st.rerun(): the script runs again from the top with no widget event, on
\* the tables as the handler left them.
Rerun(s, r) ==
    \E custs \in SelectCustomers(customers', r.user_id) :
      \E r1 \in {AfterCustomerSelect(r, custs, Keep)} :
        sess' = [sess EXCEPT ![s] =
            Render(AfterMonthFilter(r1,
                      SelectMonths(transactions', r1.selected_customer_id),
                      KeepMonth),
                   transactions')]

\* ------------------------------------------------------------------- Init
Init ==
    /\ users = {}
    /\ customers = {}
    /\ transactions = {}
    /\ sqlite_sequence = [users |-> 0, customers |-> 0, transactions |-> 0]
    /\ clock = MonthLen - 1
    /\ sess = [s \in Sessions |-> FreshSession]
    /\ registered = {}
    /\ created = <<>>
    /\ last = Other

\* The same start with one browser session only
InitLedger ==
    /\ users = {}
    /\ customers = {}
    /\ transactions = {}
    /\ sqlite_sequence = [users |-> 0, customers |-> 0, transactions |-> 0]
    /\ clock = MonthLen - 1
    /\ sess = [s \in LedgerSessions |-> FreshSession]
    /\ registered = {}
    /\ created = <<>>
    /\ last = Other

DbUnchanged == UNCHANGED <<users, customers, transactions, sqlite_sequence>>

\* ---------------------------------------------------------------- init_db
\* Lines 64-68 and 22-53: the first run of a session (and the run after
\* Logout) calls init_db; CREATE TABLE IF NOT EXISTS leaves existing tables
\* alone; the SELECT for the admin row is its own statement.
InitSelect(s) ==
    LET r == sess[s]
        found == \E u \in users : u.email = AdminEmail
    IN  /\ r.pc = "start"
        /\ sess' = [sess EXCEPT ![s] =
              IF found
              THEN [r EXCEPT !.pc = "idle", !.db_initialized = TRUE]
              ELSE [r EXCEPT !.pc = "init_insert"]]
        /\ last' = Last("init_select", IF found THEN "found" ELSE "absent")
        /\ DbUnchanged
        /\ UNCHANGED <<clock, registered, created>>

\* Variant of lines 54-59 with INSERT OR REPLACE: a row of the same email is
\* deleted and the new row gets the next id
SeedAdminReplace ==
    /\ users' = { u \in users : u.email # AdminEmail } \cup
          {[id |-> sqlite_sequence.users + 1, name |-> AdminName,
            email |-> AdminEmail, password |-> hash_password(AdminPassword)]}
    /\ sqlite_sequence' = [sqlite_sequence EXCEPT !.users = @ + 1]
    /\ last' = Last("init_insert", "inserted")

\* Lines 54-59: the INSERT of the admin row inside try/except: pass
SeedAdmin ==
    IF UniqueViolation(AdminEmail)
    THEN /\ UNCHANGED <<users, sqlite_sequence>>
         /\ last' = Last("init_insert", "IntegrityError")
    ELSE /\ InsertUser(AdminName, AdminEmail, AdminPassword)
         /\ last' = Last("init_insert", "inserted")

\* Lines 53-61: the branch of init_db that found no admin row
InitInsert(s) ==
    LET r == sess[s]
    IN  /\ r.pc = "init_insert"
        /\ SeedAdmin
        /\ sess' = [sess EXCEPT ![s] =
              [r EXCEPT !.pc = "idle", !.db_initialized = TRUE]]
        /\ UNCHANGED <<customers, transactions, clock, registered, created>>

\* ------------------------------------------------------------ auth screen
AuthScreen(s) == sess[s].pc = "idle" /\ ~sess[s].logged_in

\* Lines 237-248 with login_user
Login(s, inp) ==
    LET r == sess[s]
        email == inp[1]
        password == inp[2]
        res == login_user(email, password)
    IN  /\ AuthScreen(s)
        /\ DbUnchanged
        /\ UNCHANGED <<clock, registered, created>>
        /\ IF email # "" /\ password # ""
           THEN IF res[1]
                THEN /\ Rerun(s, [r EXCEPT !.logged_in = TRUE,
                                           !.user_id = res[2],
                                           !.user_name = res[3]])
                     /\ last' = Last("login", "ok")
                ELSE /\ UNCHANGED sess
                     /\ last' = Last("login", "InvalidCredentials")
           ELSE /\ UNCHANGED sess
                /\ last' = Other

\* Lines 260-275 with register_user
Register(s, inp) ==
    LET r == sess[s]
        name == inp[1]
        email == inp[2]
        password == inp[3]
        user_id == sqlite_sequence.users + 1
    IN  /\ AuthScreen(s)
        /\ UNCHANGED <<customers, transactions, clock, created>>
        /\ IF name # "" /\ email # "" /\ password # ""
           THEN IF Len(password) < MinPasswordLen
                THEN /\ UNCHANGED <<users, sqlite_sequence, registered, sess>>
                     /\ last' = Other
                ELSE IF UniqueViolation(email)
                THEN /\ UNCHANGED <<users, sqlite_sequence, registered, sess>>
                     /\ last' = Last("register", "EmailTaken")
                ELSE /\ sqlite_sequence.users < UserLimit
                     /\ InsertUser(name, email, password)
                     /\ registered' = registered \cup
                           {[name |-> name, email |-> email,
                             password |-> password, id |-> user_id]}
                     /\ Rerun(s, [r EXCEPT !.logged_in = TRUE,
                                           !.user_id = user_id,
                                           !.user_name = name])
                     /\ last' = Last("register", "ok")
           ELSE /\ UNCHANGED <<users, sqlite_sequence, registered, sess>>
                /\ last' = Other

\* ------------------------------------------------------------ main screen
MainScreen(s) == sess[s].pc = "idle" /\ sess[s].logged_in

\* Lines 284-286: session_state.clear() and rerun; the rerun starts with
\* init_session_state on an empty session state.
Logout(s) ==
    /\ MainScreen(s)
    /\ sess' = [sess EXCEPT ![s] = FreshSession]
    /\ last' = Other
    /\ DbUnchanged
    /\ UNCHANGED <<clock, registered, created>>

\* A run without any widget event (the user asks for a rerun).
PlainRun(s) ==
    /\ MainScreen(s)
    /\ DbUnchanged
    /\ UNCHANGED <<clock, registered, created>>
    /\ Rerun(s, sess[s])
    /\ last' = Other

\* Lines 299-307: the user picks an option of the customer selectbox
SelectCustomer(s, name) ==
    LET r == sess[s]
    IN  /\ MainScreen(s)
        /\ name \in Range(r.customer_select.options)
        /\ DbUnchanged
        /\ UNCHANGED <<clock, registered, created>>
        /\ \E custs \in get_customers(r.user_id) :
           \E r1 \in {AfterCustomerSelect(r, custs, name)} :
                 sess' = [sess EXCEPT ![s] =
                    Render(AfterMonthFilter(r1,
                              get_available_months(r1.selected_customer_id),
                              KeepMonth),
                           transactions)]
        /\ last' = Other

\* Lines 313-314: "Add New Customer"; the run goes on to the end
ClickAddCustomer(s) ==
    LET r == sess[s]
    IN  /\ MainScreen(s)
        /\ DbUnchanged
        /\ UNCHANGED <<clock, registered, created>>
        /\ \E custs \in get_customers(r.user_id) :
           \E r2 \in {[AfterCustomerSelect(r, custs, Keep)
                           EXCEPT !.show_add_customer = TRUE]} :
                 /\ OpenDialogs(r2) <= MaxOpenDialogs
                 /\ sess' = [sess EXCEPT ![s] =
                    Render(AfterMonthFilter(r2,
                              get_available_months(r2.selected_customer_id),
                              KeepMonth),
                           transactions)]
        /\ last' = Other

\* Lines 327-334: "Save Customer"
SaveCustomer(s, new_customer_name) ==
    LET r == sess[s]
    IN  /\ MainScreen(s)
        /\ r.show_add_customer
        /\ UNCHANGED <<users, transactions, clock, registered, created>>
        /\ \E custs \in get_customers(r.user_id) :
           \E r1 \in {AfterCustomerSelect(r, custs, Keep)} :
                 IF strip(new_customer_name) # ""
                 THEN /\ sqlite_sequence.customers < CustomerLimit
                      /\ add_customer(r.user_id, strip(new_customer_name))
                      /\ Rerun(s, [r1 EXCEPT !.show_add_customer = FALSE,
                                            !.month_select = NoMonthSelect])
                      /\ last' = Other
                 ELSE /\ UNCHANGED <<customers, sqlite_sequence>>
                      /\ sess' = [sess EXCEPT ![s] =
                            Render(AfterMonthFilter(r1,
                                      get_available_months(r1.selected_customer_id),
                                      KeepMonth),
                                   transactions)]
                      /\ last' = Other

\* Lines 336-338: "Cancel" of the customer form
CancelCustomer(s) ==
    LET r == sess[s]
    IN  /\ MainScreen(s)
        /\ r.show_add_customer
        /\ DbUnchanged
        /\ UNCHANGED <<clock, registered, created>>
        /\ \E custs \in get_customers(r.user_id) :
           \E r1 \in {AfterCustomerSelect(r, custs, Keep)} :
                 Rerun(s, [r1 EXCEPT !.show_add_customer = FALSE,
                                     !.month_select = NoMonthSelect])
        /\ last' = Other

\* Lines 345-353: the user picks an option of the month filter
SelectMonth(s, month) ==
    LET r == sess[s]
    IN  /\ MainScreen(s)
        /\ month \in Range(r.month_select.options)
        /\ DbUnchanged
        /\ UNCHANGED <<clock, registered, created>>
        /\ \E custs \in get_customers(r.user_id) :
           \E r1 \in {AfterCustomerSelect(r, custs, Keep)} :
                 sess' = [sess EXCEPT ![s] =
                    Render(AfterMonthFilter(r1,
                              get_available_months(r1.selected_customer_id),
                              month),
                           transactions)]
        /\ last' = Other

\* Lines 291-356 of a run whose event is handled below line 356: the pairs
\* <<r, txs>> of the session state and the list transactions that the rest
\* of the run may work with (none when no customer is selected).
LedgerRun(s) ==
    UNION { LET r1 == AfterCustomerSelect(sess[s], custs, Keep)
                r == AfterMonthFilter(r1,
                        get_available_months(r1.selected_customer_id), KeepMonth)
            IN  IF r1.selected_customer_id = None THEN {}
                ELSE { <<r, txs>> :
                         txs \in get_transactions(r.selected_customer_id,
                                                  SelectedMonth(r)) }
          : custs \in get_customers(sess[s].user_id) }

\* Lines 404-406: "Add Transaction"; the run goes on and renders the form
ClickAddTransaction(s) ==
    /\ MainScreen(s)
    /\ DbUnchanged
    /\ UNCHANGED <<clock, registered, created>>
    /\ \E v \in LedgerRun(s) :
         LET r == v[1]
             txs == v[2]
         IN
              /\ OpenDialogs([r EXCEPT !.show_add_form = TRUE,
                                       !.edit_transaction_id = None])
                    <= MaxOpenDialogs
              /\ sess' = [sess EXCEPT ![s] =
                    Render([r EXCEPT !.show_add_form = TRUE,
                                     !.edit_transaction_id = None],
                           transactions)]
              /\ last' = Other

\* Lines 453-465: "Save Transaction", clicked in the form the last run
\* rendered.  The values are the ones the form widgets return in this run.
\* The UPDATE of an edit is a statement of its own, after the reads of this
\* run; the INSERT of an add does not depend on what the run read and is
\* taken together with it.
SaveTransaction(s, form) ==
    /\ MainScreen(s)
    /\ sess[s].form_defaults # NoForm
    /\ UNCHANGED <<clock, registered>>
    /\ \E v \in LedgerRun(s) :
         LET r == v[1]
             txs == v[2]
         IN
           /\ FormShown(r)
           /\ ~EditDefaultsRaise(r, txs)
           /\ \E values \in {FormValues(sess[s].form_defaults,
                                        FormDefaults(r, transactions), form)} :
                LET trans_type == values[1]
                    total_amount == values[2]
                    amount_received == values[3]
                    note == values[4]
                    amount_left == AmountLeft(total_amount, amount_received)
                IN
                  IF AmountValid(total_amount)
                  THEN IF r.edit_transaction_id # None
                       THEN /\ DbUnchanged
                            /\ UNCHANGED created
                            /\ sess' = [sess EXCEPT ![s] =
                                  [r EXCEPT !.pc = "write",
                                     !.pending =
                                        [op |-> "update",
                                         trans_id |-> r.edit_transaction_id,
                                         trans_type |-> trans_type,
                                         total_amount |-> total_amount,
                                         amount_received |-> amount_received,
                                         amount_left |-> amount_left,
                                         note |-> note]]]
                            /\ last' = Other
                       ELSE /\ sqlite_sequence.transactions < TransactionLimit
                            /\ UNCHANGED <<users, customers>>
                            /\ add_transaction(r.selected_customer_id, trans_type,
                                  total_amount, amount_received, amount_left, note)
                            /\ created' = Append(created, clock)
                            /\ Rerun(s, [r EXCEPT !.show_add_form = FALSE,
                                                  !.edit_transaction_id = None])
                            /\ last' = Last("insert", "1 row")
                  ELSE /\ DbUnchanged
                       /\ UNCHANGED created
                       /\ sess' = [sess EXCEPT ![s] = Render(r, transactions)]
                       /\ last' = Last("save", "InvalidAmount")

\* Line 456 with lines 461-463: the UPDATE, the flags and the rerun
WriteUpdate(s) ==
    LET r == sess[s]
        w == r.pending
    IN  /\ r.pc = "write"
        /\ w.op = "update"
        /\ UNCHANGED <<users, customers, sqlite_sequence, clock, registered, created>>
        /\ update_transaction(w.trans_id, w.trans_type, w.total_amount,
                              w.amount_received, w.amount_left, w.note)
        /\ Rerun(s, [r EXCEPT !.pc = "idle", !.pending = NoWrite,
                              !.show_add_form = FALSE,
                              !.edit_transaction_id = None])
        /\ last' = Last("update",
                        IF \E t \in transactions : t.id = w.trans_id
                        THEN "1 row" ELSE "0 rows")

\* Lines 467-470: "Cancel" of the transaction form
CancelForm(s) ==
    /\ MainScreen(s)
    /\ DbUnchanged
    /\ UNCHANGED <<clock, registered, created>>
    /\ \E v \in LedgerRun(s) :
         LET r == v[1]
             txs == v[2]
         IN
              /\ FormShown(r)
              /\ ~EditDefaultsRaise(r, txs)
              /\ Rerun(s, [r EXCEPT !.show_add_form = FALSE,
                                    !.edit_transaction_id = None])
              /\ last' = Other

\* The list of lines 473-526 is rendered: the run got past line 414
ListShown(r, txs) == ~(FormShown(r) /\ EditDefaultsRaise(r, txs))

\* Lines 502-505: the edit button of a listed transaction
ClickEdit(s, trans_id) ==
    /\ MainScreen(s)
    /\ DbUnchanged
    /\ UNCHANGED <<clock, registered, created>>
    /\ \E v \in LedgerRun(s) :
         LET r == v[1]
             txs == v[2]
         IN
              /\ ListShown(r, txs)
              /\ \E i \in DOMAIN txs : txs[i][1] = trans_id
              /\ OpenDialogs([r EXCEPT !.edit_transaction_id = trans_id,
                                       !.show_add_form = FALSE])
                    <= MaxOpenDialogs
              /\ Rerun(s, [r EXCEPT !.edit_transaction_id = trans_id,
                                    !.show_add_form = FALSE])
              /\ last' = Other

\* Lines 507-509: the delete button of a listed transaction
ClickDelete(s, trans_id) ==
    /\ MainScreen(s)
    /\ DbUnchanged
    /\ UNCHANGED <<clock, registered, created>>
    /\ \E v \in LedgerRun(s) :
         LET r == v[1]
             txs == v[2]
         IN
              /\ ListShown(r, txs)
              /\ \E i \in DOMAIN txs : txs[i][1] = trans_id
              /\ OpenDialogs([r EXCEPT !.confirm_delete = @ \cup {trans_id}])
                    <= MaxOpenDialogs
              /\ Rerun(s, [r EXCEPT !.confirm_delete = @ \cup {trans_id}])
              /\ last' = Other

\* Lines 512-517: "Yes, Delete" of a listed transaction whose confirmation is
\* pending; the DELETE is a statement of its own, after the reads of the run
ConfirmYes(s, trans_id) ==
    /\ MainScreen(s)
    /\ DbUnchanged
    /\ UNCHANGED <<clock, registered, created>>
    /\ \E v \in LedgerRun(s) :
         LET r == v[1]
             txs == v[2]
         IN
              /\ ListShown(r, txs)
              /\ \E i \in DOMAIN txs : txs[i][1] = trans_id
              /\ trans_id \in r.confirm_delete
              /\ sess' = [sess EXCEPT ![s] =
                    [r EXCEPT !.pc = "write",
                              !.pending = [op |-> "delete", trans_id |-> trans_id]]]
              /\ last' = Other

\* Line 517 with lines 518-520: the DELETE, the flag and the rerun
WriteDelete(s) ==
    LET r == sess[s]
        w == r.pending
    IN  /\ r.pc = "write"
        /\ w.op = "delete"
        /\ UNCHANGED <<users, customers, sqlite_sequence, clock, registered, created>>
        /\ delete_transaction(w.trans_id)
        /\ Rerun(s, [r EXCEPT !.pc = "idle", !.pending = NoWrite,
                              !.confirm_delete = @ \ {w.trans_id}])
        /\ last' = Last("delete",
                        IF \E t \in transactions : t.id = w.trans_id
                        THEN "1 row" ELSE "0 rows")

\* Lines 522-524: "Cancel" of a delete confirmation
ConfirmNo(s, trans_id) ==
    /\ MainScreen(s)
    /\ DbUnchanged
    /\ UNCHANGED <<clock, registered, created>>
    /\ \E v \in LedgerRun(s) :
         LET r == v[1]
             txs == v[2]
         IN
              /\ ListShown(r, txs)
              /\ \E i \in DOMAIN txs : txs[i][1] = trans_id
              /\ trans_id \in r.confirm_delete
              /\ Rerun(s, [r EXCEPT !.confirm_delete = @ \ {trans_id}])
              /\ last' = Other

\* The server clock advances
Tick ==
    /\ clock < MaxClock
    /\ clock' = clock + 1
    /\ last' = Other
    /\ DbUnchanged
    /\ UNCHANGED <<sess, registered, created>>

Next ==
    \/ \E s \in DOMAIN sess : InitSelect(s)
    \/ \E s \in DOMAIN sess : InitInsert(s)
    \/ \E s \in DOMAIN sess : \E inp \in LoginInputs : Login(s, inp)
    \/ \E s \in DOMAIN sess : \E inp \in RegisterInputs : Register(s, inp)
    \/ \E s \in DOMAIN sess : Logout(s)
    \/ \E s \in DOMAIN sess : PlainRun(s)
    \/ \E s \in DOMAIN sess : \E name \in Range(CustomerNames) : SelectCustomer(s, name)
    \/ \E s \in DOMAIN sess : SelectCustomer(s, "")
    \/ \E s \in DOMAIN sess : ClickAddCustomer(s)
    \/ \E s \in DOMAIN sess : \E name \in CustomerNameInputs : SaveCustomer(s, name)
    \/ \E s \in DOMAIN sess : CancelCustomer(s)
    \/ \E s \in DOMAIN sess : \E m \in {AllMonths} \cup 1..(FormatMonth(MaxClock)) :
          SelectMonth(s, m)
    \/ \E s \in DOMAIN sess : ClickAddTransaction(s)
    \/ \E s \in DOMAIN sess : \E form \in FormInputs : SaveTransaction(s, form)
    \/ \E s \in DOMAIN sess : WriteUpdate(s)
    \/ \E s \in DOMAIN sess : CancelForm(s)
    \/ \E s \in DOMAIN sess : \E id \in 1..MaxTransactions : ClickEdit(s, id)
    \/ \E s \in DOMAIN sess : \E id \in 1..MaxTransactions : ClickDelete(s, id)
    \/ \E s \in DOMAIN sess : \E id \in 1..MaxTransactions : ConfirmYes(s, id)
    \/ \E s \in DOMAIN sess : WriteDelete(s)
    \/ \E s \in DOMAIN sess : \E id \in 1..MaxTransactions : ConfirmNo(s, id)
    \/ Tick

Spec == Init /\ [][Next]_vars

SpecLedger == InitLedger /\ [][Next]_vars

\* ------------------------------------------------------------- properties
RowIds == { t.id : t \in transactions }

RECURSIVE TotalOf(_)
TotalOf(rows) ==
    IF rows = {} THEN 0
    ELSE LET t == CHOOSE x \in rows : TRUE
         IN  t.total_amount + TotalOf(rows \ {t})

\* C1: in every reachable state every stored transaction has
\* amount_left = total_amount - amount_received, without clamping: it is
\* negative when amount_received exceeds total_amount.
C1_AmountLeftConsistent ==
    \A t \in transactions :
        t.amount_left = t.total_amount - t.amount_received

\* An UPDATE has just rewritten a row and a stored row has a negative
\* amount_left.
C1_Witness ==
    /\ last = Last("update", "1 row")
    /\ \E t \in transactions :
          t.amount_received > t.total_amount /\ t.amount_left < 0

\* C2: a save of the transaction form (add or edit) is accepted if and only
\* if total_amount > 0; with total_amount <= 0 it is refused with the
\* InvalidAmount message, no statement is issued and the transactions table
\* is the same as before.
C2_InvalidAmountRejected ==
    [][ \A s \in DOMAIN sess : \A form \in FormInputs :
          SaveTransaction(s, form) =>
            IF form[2] > 0
            THEN /\ last' # Last("save", "InvalidAmount")
                 /\ \/ /\ sess'[s].pc = "write"
                       /\ sess'[s].pending.op = "update"
                       /\ sess'[s].pending.total_amount = form[2]
                    \/ \E t \in transactions' \ transactions :
                          /\ t.total_amount = form[2]
                          /\ transactions' = transactions \cup {t}
            ELSE /\ last' = Last("save", "InvalidAmount")
                 /\ transactions' = transactions
                 /\ sess'[s].pc = "idle"
                 /\ sess'[s].pending = NoWrite ]_vars

\* A save in edit mode has just been refused with InvalidAmount.
C2_Witness ==
    /\ last = Last("save", "InvalidAmount")
    /\ transactions # {}
    /\ \E s \in DOMAIN sess : sess[s].edit_transaction_id \in RowIds

\* C3: a registration whose email already belongs to an account fails with
\* EmailTaken and leaves the users table as it was (id, name and password
\* hash of the prior account included), and no two accounts ever have the
\* same email, whatever the two sessions do.
C3_EmailTaken ==
    [][ /\ \A s \in DOMAIN sess : \A inp \in RegisterInputs :
             ( /\ Register(s, inp)
               /\ inp[1] # "" /\ inp[2] # "" /\ inp[3] # ""
               /\ Len(inp[3]) >= MinPasswordLen
               /\ \E u \in users : u.email = inp[2] )
             => /\ last' = Last("register", "EmailTaken")
                /\ users' = users
                /\ ~sess'[s].logged_in
        /\ \A u1, u2 \in users' : u1.email = u2.email => u1 = u2 ]_vars

\* A registration has just been refused with EmailTaken while the account
\* of that email, registered through another session, is in the table.
C3_Witness ==
    /\ last = Last("register", "EmailTaken")
    /\ \E r \in registered : \E u \in users :
          /\ u.id = r.id /\ u.email = r.email /\ u.name = r.name
          /\ \E s \in DOMAIN sess : sess[s].logged_in /\ sess[s].user_id = u.id

\* C4: whatever happened since, login_user with the credentials of a
\* successful registration succeeds and returns the id and the name that
\* register_user returned.
C4_RegisterThenLogin ==
    \A r \in registered :
        login_user(r.email, r.password) = <<TRUE, r.id, r.name>>

\* A registered user has just logged in again, into a store that holds a
\* customer and a transaction.
C4_Witness ==
    /\ last = Last("login", "ok")
    /\ customers # {}
    /\ transactions # {}
    /\ \E r \in registered : \E s \in DOMAIN sess :
          /\ sess[s].logged_in
          /\ sess[s].user_id = r.id
          /\ sess[s].user_name = r.name

\* C5: the UPDATE of an edit rewrites type, total_amount, amount_received,
\* amount_left and note of the row with that id and nothing else: the row
\* keeps its id, customer_id and date_time (the time of its creation), every
\* other row is unchanged and no row appears or disappears.
C5_UpdateFrame ==
    [][ \A s \in DOMAIN sess :
          WriteUpdate(s) =>
            LET w == sess[s].pending
            IN  /\ Cardinality(transactions') = Cardinality(transactions)
                /\ \A t \in transactions :
                     IF t.id = w.trans_id
                     THEN \E t2 \in transactions' :
                            /\ t2.id = t.id
                            /\ t2.customer_id = t.customer_id
                            /\ t2.date_time = t.date_time
                            /\ t2.date_time = FormatDateTime(created[t.id])
                            /\ t2.type = w.trans_type
                            /\ t2.total_amount = w.total_amount
                            /\ t2.amount_received = w.amount_received
                            /\ t2.amount_left = w.amount_left
                            /\ t2.note = w.note
                     ELSE t \in transactions' ]_vars

\* An UPDATE has just rewritten one of two stored rows, later than the row
\* was created.
C5_Witness ==
    /\ last = Last("update", "1 row")
    /\ Cardinality(transactions) = 2
    /\ \A t \in transactions : created[t.id] < clock

AdminRows == { u \in users : u.email = AdminEmail }

\* C7: once a session has finished init_db there is an account of the admin
\* email, with the admin password; there is never more than one, and no
\* later step (init_db of a new session or after Logout, also two at once)
\* changes its id, name or password hash.
C7_SeedIdempotent ==
    [][ /\ Cardinality(AdminRows') <= 1
        /\ AdminRows # {} => AdminRows' = AdminRows
        /\ (\E s \in DOMAIN sess : sess'[s].db_initialized)
              => /\ AdminRows' # {}
                 /\ \A u \in AdminRows' :
                      /\ u.name = AdminName
                      /\ u.password = hash_password(AdminPassword) ]_vars

\* Two sessions ran init_db at once: both found no admin row, and the INSERT
\* of the second has just failed on the row of the first.
C7_Witness ==
    /\ last = Last("init_insert", "IntegrityError")
    /\ \A s \in DOMAIN sess : sess[s].db_initialized
    /\ Cardinality(AdminRows) = 1

\* C8: in every reachable state the customer_id of every stored transaction
\* is the id of exactly one customer row, whose user_id is the id of exactly
\* one user row.
C8_TransactionsOwned ==
    \A t \in transactions :
        /\ Cardinality({ c \in customers : c.id = t.customer_id }) = 1
        /\ \A c \in customers :
              c.id = t.customer_id =>
                 Cardinality({ u \in users : u.id = c.user_id }) = 1

\* A transaction is stored for a customer of a registered (non-admin) user.
C8_Witness ==
    \E t \in transactions : \E c \in customers : \E r \in registered :
        /\ c.id = t.customer_id
        /\ c.user_id = r.id
        /\ Cardinality(users) = 2

\* C9: calculate_summary of the unfiltered list of a customer returns the sum
\* of total_amount over the rows now stored for the customer with type
\* Received, the same for Given, and the difference of the two.
C9_SummaryOfStoredRows ==
    \A c \in 1..sqlite_sequence.customers :
        /\ get_transactions(c, None) # {}
        /\ \A txs \in get_transactions(c, None) :
             LET received == { t \in transactions :
                                 t.customer_id = c /\ t.type = "Received" }
                 given == { t \in transactions :
                              t.customer_id = c /\ t.type = "Given" }
             IN  calculate_summary(txs) =
                    <<TotalOf(received), TotalOf(given),
                      TotalOf(received) - TotalOf(given)>>

\* After an UPDATE a customer has a Received row and a Given row whose
\* totals and received amounts differ.
C9_Witness ==
    /\ last = Last("update", "1 row")
    /\ \E t1, t2 \in transactions :
          /\ t1.customer_id = t2.customer_id
          /\ t1.type = "Received" /\ t2.type = "Given"
          /\ t1.total_amount # t1.amount_received

ModelMonths == { FormatMonth(t) : t \in 0..MaxClock }

C11_LastWriterWins ==
    [][ /\ \A s \in DOMAIN sess : \A form \in FormInputs :
             ( /\ SaveTransaction(s, form)
               /\ sess'[s].pc = "write" )
             => /\ sess'[s].pending.trans_type = form[1]
                /\ sess'[s].pending.total_amount = form[2]
                /\ sess'[s].pending.amount_received = form[3]
                /\ sess'[s].pending.amount_left = form[2] - form[3]
                /\ sess'[s].pending.note = form[4]
        /\ \A s \in DOMAIN sess :
             WriteUpdate(s) =>
               LET w == sess[s].pending
               IN  \A t \in transactions :
                     t.id = w.trans_id =>
                       \E t2 \in transactions' :
                          /\ t2.id = t.id
                          /\ t2.type = w.trans_type
                          /\ t2.total_amount = w.total_amount
                          /\ t2.amount_received = w.amount_received
                          /\ t2.note = w.note
                          /\ t2.amount_left =
                                t2.total_amount - t2.amount_received ]_vars

\* C12: whenever a session is in edit mode (edit_transaction_id is set) with
\* a customer selected, the run that left it there found the transaction of
\* that id in the list it displayed (the customer's rows under the month
\* filter) and rendered the form with its values: line 414 did not raise.
C12_EditRowDisplayed ==
    \A s \in DOMAIN sess :
        ( /\ sess[s].pc = "idle"
          /\ sess[s].logged_in
          /\ sess[s].edit_transaction_id # None
          /\ sess[s].selected_customer_id # None )
        => sess[s].form_defaults # NoForm

\* The ids of the transactions whose customer is not a customer of the user
ForeignRows(table, user_id) ==
    { t.id : t \in { x \in table :
                       ~\E c \in customers : /\ c.id = x.customer_id
                                             /\ c.user_id = user_id } }

====
